---- MODULE Spec2Model ----
(***************************************************************************)
(* Movie-review program (src/src/processor.rs): the create handler         *)
(* add_movie_review and the update handler update_movie_review, run by the *)
(* host one instruction at a time.  Account data is modelled byte by byte, *)
(* the record codec by what it reads and writes, the derived address as an *)
(* injective function of (program, owner key, title).                      *)
(***************************************************************************)
EXTENDS Integers, Sequences, FiniteSets, TLC

VARIABLES accounts, pc, tx, outcome, prior

vars == <<accounts, pc, tx, outcome, prior>>

(***************************** bounds **************************************)

\* number of records the first wallet can fund from its opening balance
FundedCreates == 2

(*************************** identities ************************************)

ProgramId == "program"

SystemProgramId == "system"

\* wallets that sign transactions, by key
Wallets == {1, 2}

\* a title is a byte string; the two used here differ in length
Title1 == <<65>>

Title2 == <<66, 67>>

Titles == {Title1, Title2}

Fill(n, b) == [i \in 1..n |-> b]

\* descriptions: a short one, and long ones around the size boundaries
Descriptions ==
    { Fill(1, 100), Fill(957, 101), Fill(989, 102), Fill(990, 103),
      Fill(994, 104) }

Ratings == {0, 1, 5, 6}

WalletAddr(k) == [kind |-> "wallet", key |-> k, seed |-> <<>>]

\* Pubkey bytes of a wallet key
KeyBytes(k) == Fill(32, k)

account_len == 1000

\* Pubkey::find_program_address: panics when a seed is longer than 32 bytes,
\* otherwise a deterministic address, distinct for distinct (key, title).
find_program_address(key, title) ==
    IF Len(title) > 32
    THEN [ok |-> FALSE, pda |-> [kind |-> "none", key |-> 0, seed |-> <<>>]]
    ELSE [ok |-> TRUE,  pda |-> [kind |-> "pda", key |-> key, seed |-> title]]

PdaAddrs == { find_program_address(k, t).pda : k \in Wallets, t \in Titles }

Addresses == { WalletAddr(k) : k \in Wallets } \cup PdaAddrs

\* Rent::minimum_balance for an account of `len` data bytes
minimum_balance(len) == (128 + len) * 3480 * 2

\* the largest opening balance of a wallet: the rent of FundedCreates
\* records for the first wallet, one lamport short of the rent of one record
\* for every other wallet
OpeningLamports(k) ==
    IF k = 1 THEN FundedCreates * minimum_balance(account_len)
    ELSE minimum_balance(account_len) - 1

\* the balances a wallet may open with: the first wallet the rent of one up
\* to FundedCreates records
OpeningBalances(k) ==
    IF k = 1
    THEN { n * minimum_balance(account_len) : n \in 1..FundedCreates }
    ELSE { OpeningLamports(k) }

(***************************** record codec ********************************)

LE32(n) ==
    << n % 256, (n \div 256) % 256, (n \div 65536) % 256, (n \div 16777216) % 256 >>

FromLE32(b) == b[1] + 256 * b[2] + 65536 * b[3] + 16777216 * b[4]

NoState ==
    [is_initialized |-> FALSE, reviewer |-> <<>>, title |-> <<>>,
     rating |-> 0, description |-> <<>>]

\* borsh encoding of MovieAccountState, fields in layout order
Encode(s) ==
    << IF s.is_initialized THEN 1 ELSE 0 >> \o s.reviewer
       \o LE32(Len(s.title)) \o s.title
       \o << s.rating >>
       \o LE32(Len(s.description)) \o s.description

\* try_from_slice_unchecked::<MovieAccountState>: reads a prefix of the
\* buffer, ignores what follows, fails when the buffer is too short for what
\* the length prefixes announce or when the flag byte is no bool.
try_from_slice_unchecked(data) ==
    LET n == Len(data) IN
    IF n < 37 THEN [ok |-> FALSE, state |-> NoState]
    ELSE LET tl == FromLE32(SubSeq(data, 34, 37)) IN
      IF n < 42 + tl THEN [ok |-> FALSE, state |-> NoState]
      ELSE LET dl == FromLE32(SubSeq(data, 39 + tl, 42 + tl)) IN
        IF n < 42 + tl + dl \/ data[1] \notin {0, 1}
        THEN [ok |-> FALSE, state |-> NoState]
        ELSE [ok |-> TRUE,
              state |-> [is_initialized |-> data[1] = 1,
                         reviewer |-> SubSeq(data, 2, 33),
                         title |-> SubSeq(data, 38, 37 + tl),
                         rating |-> data[38 + tl],
                         description |-> SubSeq(data, 43 + tl, 42 + tl + dl)]]

serialize_growing(s, data) ==
    LET enc == Encode(s) IN
    [ok |-> TRUE,
     data |-> IF Len(enc) <= Len(data)
              THEN [i \in 1..Len(data) |->
                      IF i <= Len(enc) THEN enc[i] ELSE data[i]]
              ELSE enc]

\* account_data.serialize(&mut &mut data[..]): writes the encoding over the
\* front of the buffer; when it does not fit, the part that fits is written
\* and the call fails.
serialize(s, data) ==
    LET enc == Encode(s) IN
    [ok |-> Len(enc) <= Len(data),
     data |-> [i \in 1..Len(data) |-> IF i <= Len(enc) THEN enc[i] ELSE data[i]]]

(************************* host: system program ****************************)

Ret(result, accts, invoked) ==
    [result |-> result, accounts |-> accts, invoked |-> invoked]

create_account_first_wallet_pays(accts, from, to, lamports, space, owner) ==
    IF accts[to].lamports > 0 \/ Len(accts[to].data) > 0
       \/ accts[to].owner # SystemProgramId
    THEN Ret("AccountAlreadyInUse", accts, TRUE)
    ELSE IF accts[WalletAddr(1)].lamports < lamports
    THEN Ret("ResultWithNegativeLamports", accts, TRUE)
    ELSE Ret("Ok",
             [accts EXCEPT ![WalletAddr(1)].lamports = @ - lamports,
                           ![to] = [lamports |-> lamports,
                                    owner |-> owner,
                                    data |-> Fill(space, 0)]],
             TRUE)

\* system_instruction::create_account as the system program executes it:
\* the new address must hold no lamports, no data and belong to the system
\* program; the funding account must hold the lamports transferred.
create_account(accts, from, to, lamports, space, owner) ==
    IF accts[to].lamports > 0 \/ Len(accts[to].data) > 0
       \/ accts[to].owner # SystemProgramId
    THEN Ret("AccountAlreadyInUse", accts, TRUE)
    ELSE IF accts[from].lamports < lamports
    THEN Ret("ResultWithNegativeLamports", accts, TRUE)
    ELSE Ret("Ok",
             [accts EXCEPT ![from].lamports = @ - lamports,
                           ![to] = [lamports |-> lamports,
                                    owner |-> owner,
                                    data |-> Fill(space, 0)]],
             TRUE)

(******************************* validator *********************************)

RatingInvalid_upper_only(rating) == rating > 5

RatingInvalid(rating) == rating > 5 \/ rating < 1

total_len(title, description) ==
    1 + 1 + (4 + Len(title)) + (4 + Len(description))

update_len(title, description) ==
    1 + 1 + (4 + Len(description)) + Len(title)

DataTooLarge(len) == len > 1000

(******************************* handlers **********************************)

\* lines 110-130: decode the fresh storage, refuse an initialized record,
\* fill the record in and write it back
add_write(accts, ix) ==
    LET pda == ix.pda_account
        dec == try_from_slice_unchecked(accts[pda].data)
    IN  IF ~dec.ok THEN Ret("Panic", accts, TRUE)
        ELSE IF dec.state.is_initialized
        THEN Ret("AccountAlreadyInitialized", accts, TRUE)
        ELSE LET st  == [is_initialized |-> TRUE,
                         reviewer |-> KeyBytes(ix.initializer),
                         title |-> ix.title,
                         rating |-> ix.rating,
                         description |-> ix.description]
                 ser == serialize(st, accts[pda].data)
                 out == [accts EXCEPT ![pda].data = ser.data]
             IN  IF ser.ok THEN Ret("Ok", out, TRUE)
                 ELSE Ret("BorshIoError", out, TRUE)

invoke_create_account_if_needed(accts, ix) ==
    IF accts[ix.pda_account].owner = ProgramId THEN Ret("Ok", accts, FALSE)
    ELSE create_account(accts, WalletAddr(ix.initializer), ix.pda_account,
                        minimum_balance(account_len), account_len, ProgramId)

\* lines 82-105: the signed call that allocates account_len bytes at the
\* derived address, funded by the initializer and owned by the program
invoke_create_account(accts, ix) ==
    create_account(accts, WalletAddr(ix.initializer), ix.pda_account,
                   minimum_balance(account_len), account_len, ProgramId)

add_movie_review_size_first(accts, ix) ==
    IF ~ix.is_signer THEN Ret("MissingRequiredSignature", accts, FALSE)
    ELSE LET d == find_program_address(ix.initializer, ix.title) IN
    IF ~d.ok THEN Ret("Panic", accts, FALSE)
    ELSE IF d.pda # ix.pda_account THEN Ret("InvalidArgument", accts, FALSE)
    ELSE IF DataTooLarge(total_len(ix.title, ix.description))
    THEN Ret("InvalidDataLength", accts, FALSE)
    ELSE IF RatingInvalid(ix.rating) THEN Ret("InvalidRating", accts, FALSE)
    ELSE LET cpi == invoke_create_account(accts, ix)
         IN  IF cpi.result # "Ok" THEN cpi
             ELSE add_write(cpi.accounts, ix)

add_movie_review_any_address(accts, ix) ==
    IF ~ix.is_signer THEN Ret("MissingRequiredSignature", accts, FALSE)
    ELSE LET d == find_program_address(ix.initializer, ix.title) IN
    IF ~d.ok THEN Ret("Panic", accts, FALSE)
    ELSE IF RatingInvalid(ix.rating) THEN Ret("InvalidRating", accts, FALSE)
    ELSE IF DataTooLarge(total_len(ix.title, ix.description))
    THEN Ret("InvalidDataLength", accts, FALSE)
    ELSE LET cpi == invoke_create_account(accts, ix)
         IN  IF cpi.result # "Ok" THEN cpi
             ELSE add_write(cpi.accounts, ix)

\* lines 57-108: the checks of a create in the order of the code, then the
\* allocation, then the write
add_movie_review(accts, ix) ==
    IF ~ix.is_signer THEN Ret("MissingRequiredSignature", accts, FALSE)
    ELSE LET d == find_program_address(ix.initializer, ix.title) IN
    IF ~d.ok THEN Ret("Panic", accts, FALSE)
    ELSE IF d.pda # ix.pda_account THEN Ret("InvalidArgument", accts, FALSE)
    ELSE IF RatingInvalid(ix.rating) THEN Ret("InvalidRating", accts, FALSE)
    ELSE IF DataTooLarge(total_len(ix.title, ix.description))
    THEN Ret("InvalidDataLength", accts, FALSE)
    ELSE LET cpi == invoke_create_account(accts, ix)
         IN  IF cpi.result # "Ok" THEN cpi
             ELSE add_write(cpi.accounts, ix)

update_write_with_title(accts, ix, state) ==
    LET st  == [state EXCEPT !.rating = ix.rating,
                             !.description = ix.description,
                             !.title = ix.title]
        ser == serialize(st, accts[ix.pda_account].data)
        out == [accts EXCEPT ![ix.pda_account].data = ser.data]
    IN  IF ser.ok THEN Ret("Ok", out, FALSE)
        ELSE Ret("BorshIoError", out, FALSE)

update_write_resized(accts, ix, state) ==
    LET st == [state EXCEPT !.rating = ix.rating,
                            !.description = ix.description]
    IN  Ret("Ok", [accts EXCEPT ![ix.pda_account].data = Encode(st)], FALSE)

update_write_from_default(accts, ix, state) ==
    LET st  == [NoState EXCEPT !.rating = ix.rating,
                               !.description = ix.description]
        ser == serialize(st, accts[ix.pda_account].data)
        out == [accts EXCEPT ![ix.pda_account].data = ser.data]
    IN  IF ser.ok THEN Ret("Ok", out, FALSE)
        ELSE Ret("BorshIoError", out, FALSE)

\* lines 195-207: overwrite rating and description, write the record back
update_write(accts, ix, state) ==
    LET st  == [state EXCEPT !.rating = ix.rating,
                             !.description = ix.description]
        ser == serialize(st, accts[ix.pda_account].data)
        out == [accts EXCEPT ![ix.pda_account].data = ser.data]
    IN  IF ser.ok THEN Ret("Ok", out, FALSE)
        ELSE Ret("BorshIoError", out, FALSE)

NotOwnedByProgram_unchecked(accts, ix) == FALSE

\* line 147
NotOwnedByProgram(accts, ix) == accts[ix.pda_account].owner # ProgramId

update_pda_from_stored_reviewer(ix, state) ==
    find_program_address(state.reviewer[1], state.title)

\* lines 161-167: the address derived from the signer and the stored title
update_pda(ix, state) == find_program_address(ix.initializer, state.title)

update_movie_review_signer_first(accts, ix) ==
    IF ~ix.is_signer THEN Ret("MissingRequiredSignature", accts, FALSE)
    ELSE IF NotOwnedByProgram(accts, ix)
    THEN Ret("IllegalOwner", accts, FALSE)
    ELSE LET dec == try_from_slice_unchecked(accts[ix.pda_account].data) IN
    IF ~dec.ok THEN Ret("Panic", accts, FALSE)
    ELSE LET d == update_pda(ix, dec.state) IN
    IF ~d.ok THEN Ret("Panic", accts, FALSE)
    ELSE IF d.pda # ix.pda_account THEN Ret("InvalidPDA", accts, FALSE)
    ELSE IF ~dec.state.is_initialized
    THEN Ret("UninitializedAccount", accts, FALSE)
    ELSE IF RatingInvalid(ix.rating) THEN Ret("InvalidRating", accts, FALSE)
    ELSE IF DataTooLarge(update_len(dec.state.title, ix.description))
    THEN Ret("InvalidDataLength", accts, FALSE)
    ELSE update_write(accts, ix, dec.state)

\* lines 147-207: the checks of an update in the order of the code, then the
\* write
update_movie_review(accts, ix) ==
    IF NotOwnedByProgram(accts, ix)
    THEN Ret("IllegalOwner", accts, FALSE)
    ELSE IF ~ix.is_signer THEN Ret("MissingRequiredSignature", accts, FALSE)
    ELSE LET dec == try_from_slice_unchecked(accts[ix.pda_account].data) IN
    IF ~dec.ok THEN Ret("Panic", accts, FALSE)
    ELSE LET d == update_pda(ix, dec.state) IN
    IF ~d.ok THEN Ret("Panic", accts, FALSE)
    ELSE IF d.pda # ix.pda_account THEN Ret("InvalidPDA", accts, FALSE)
    ELSE IF ~dec.state.is_initialized
    THEN Ret("UninitializedAccount", accts, FALSE)
    ELSE IF RatingInvalid(ix.rating) THEN Ret("InvalidRating", accts, FALSE)
    ELSE IF DataTooLarge(update_len(dec.state.title, ix.description))
    THEN Ret("InvalidDataLength", accts, FALSE)
    ELSE update_write(accts, ix, dec.state)

(************************** instruction codec ******************************)

\* the instruction buffer a client builds: tag, title, rating, description
pack(tag, title, rating, description) ==
    << tag >> \o LE32(Len(title)) \o title
       \o << rating >>
       \o LE32(Len(description)) \o description

TagOf(variant) == IF variant = "AddMovieReview" THEN 0 ELSE 1

NoInstruction ==
    [ok |-> FALSE, variant |-> "none", title |-> <<>>, rating |-> 0,
     description |-> <<>>]

\* MovieInstruction::unpack: tag 0 is AddMovieReview, tag 1 is
\* UpdateMovieReview; every other tag and every buffer shorter than its
\* length prefixes announce is refused.
unpack(data) ==
    LET n == Len(data) IN
    IF n < 5 \/ data[1] \notin {0, 1} THEN NoInstruction
    ELSE LET tl == FromLE32(SubSeq(data, 2, 5)) IN
      IF n < 10 + tl THEN NoInstruction
      ELSE LET dl == FromLE32(SubSeq(data, 7 + tl, 10 + tl)) IN
        IF n < 10 + tl + dl THEN NoInstruction
        ELSE [ok |-> TRUE,
              variant |-> IF data[1] = 0 THEN "AddMovieReview"
                          ELSE "UpdateMovieReview",
              title |-> SubSeq(data, 6, 5 + tl),
              rating |-> data[6 + tl],
              description |-> SubSeq(data, 11 + tl, 10 + tl + dl)]

(***************************** entry point *********************************)

WithHandler(handler, ret) ==
    [result |-> ret.result, accounts |-> ret.accounts,
     invoked |-> ret.invoked, handler |-> handler]

\* the buffer the host receives for a request: the one the client packed
\* from its fields, or the raw buffer it sent as is
instruction_data(t) ==
    IF t.variant = "raw" THEN t.raw
    ELSE pack(TagOf(t.variant), t.title, t.rating, t.description)

\* the arm of process_instruction a buffer reaches, "none" when unpack fails
\* and the error is returned at once
dispatch(data) ==
    LET u == unpack(data) IN
    IF ~u.ok THEN "none"
    ELSE IF u.variant = "AddMovieReview" THEN "add_movie_review"
    ELSE "update_movie_review"

process_instruction_lenient(accts, t) ==
    LET u  == unpack(instruction_data(t))
        ix == [variant |-> u.variant, initializer |-> t.initializer,
               is_signer |-> t.is_signer, pda_account |-> t.pda_account,
               title |-> u.title, rating |-> u.rating,
               description |-> u.description]
    IN  IF u.ok /\ u.variant = "AddMovieReview"
        THEN WithHandler("add_movie_review", add_movie_review(accts, ix))
        ELSE WithHandler("update_movie_review", update_movie_review(accts, ix))

process_instruction(accts, t) ==
    LET u  == unpack(instruction_data(t))
        ix == [variant |-> u.variant, initializer |-> t.initializer,
               is_signer |-> t.is_signer, pda_account |-> t.pda_account,
               title |-> u.title, rating |-> u.rating,
               description |-> u.description]
    IN  IF ~u.ok
        THEN WithHandler("none", Ret("InvalidInstructionData", accts, FALSE))
        ELSE IF u.variant = "AddMovieReview"
        THEN WithHandler("add_movie_review", add_movie_review(accts, ix))
        ELSE WithHandler("update_movie_review", update_movie_review(accts, ix))

Commit_always(before, ret) == ret.accounts

\* the host keeps what an instruction wrote only when it returned Ok
Commit(before, ret) ==
    IF ret.result = "Ok" THEN ret.accounts ELSE before

(***************************** state machine *******************************)

Variants == {"AddMovieReview", "UpdateMovieReview"}

Instructions ==
    [variant : Variants, initializer : Wallets, is_signer : BOOLEAN,
     pda_account : PdaAddrs, title : Titles, rating : Ratings,
     description : Descriptions]

\* buffers built by hand: the single byte 3, the empty buffer, an unknown tag
\* with a payload, a buffer cut short, and a create whose title is longer than
\* the 32 bytes a seed may have
RawBuffers ==
    { <<3>>, <<>>, pack(2, Title1, 3, Fill(1, 100)), <<0, 5, 0, 0, 0, 65>>,
      pack(0, Fill(33, 68), 3, Fill(1, 100)) }

\* a client's request: the accounts of the instruction and the fields it
\* packs into the buffer
Request(ix) ==
    [variant |-> ix.variant, initializer |-> ix.initializer,
     is_signer |-> ix.is_signer, pda_account |-> ix.pda_account,
     title |-> ix.title, rating |-> ix.rating,
     description |-> ix.description, raw |-> <<>>]

RawRequest(k, s, a, data) ==
    [variant |-> "raw", initializer |-> k, is_signer |-> s, pda_account |-> a,
     title |-> <<>>, rating |-> 0, description |-> <<>>, raw |-> data]

NoTx ==
    [variant |-> "none", initializer |-> 0, is_signer |-> FALSE,
     pda_account |-> [kind |-> "none", key |-> 0, seed |-> <<>>],
     title |-> <<>>, rating |-> 0, description |-> <<>>, raw |-> <<>>]

NoOutcome == [result |-> "none", invoked |-> FALSE, handler |-> "none"]

Init ==
    /\ \E opening \in [Wallets -> UNION { OpeningBalances(k) : k \in Wallets }] :
         /\ \A k \in Wallets : opening[k] \in OpeningBalances(k)
         /\ accounts =
              [a \in Addresses |->
                 IF a.kind = "wallet"
                 THEN [lamports |-> opening[a.key],
                       owner |-> SystemProgramId, data |-> <<>>]
                 ELSE [lamports |-> 0, owner |-> SystemProgramId, data |-> <<>>]]
    /\ pc = "idle"
    /\ tx = NoTx
    /\ outcome = NoOutcome
    /\ prior = "none"

\* a client hands the host one instruction for the program
Submit ==
    /\ pc = "idle"
    /\ \E ix \in Instructions : tx' = Request(ix)
    /\ pc' = "pending"
    /\ prior' = "none"
    /\ UNCHANGED <<accounts, outcome>>

\* a client hands the host a buffer that is no packed operation
SubmitRaw ==
    /\ pc = "idle"
    /\ \E k \in Wallets, s \in BOOLEAN, a \in PdaAddrs, data \in RawBuffers :
          tx' = RawRequest(k, s, a, data)
    /\ pc' = "pending"
    /\ prior' = "none"
    /\ UNCHANGED <<accounts, outcome>>

\* the client runs an instruction that has just succeeded once more,
\* unchanged; prior remembers how the first run ended
Resubmit ==
    /\ pc = "done"
    /\ outcome.result = "Ok"
    /\ pc' = "pending"
    /\ prior' = outcome.result
    /\ outcome' = NoOutcome
    /\ UNCHANGED <<accounts, tx>>

Finish(ret) ==
    /\ accounts' = Commit(accounts, ret)
    /\ outcome' = [result |-> ret.result, invoked |-> ret.invoked,
                   handler |-> ret.handler]
    /\ pc' = "done"
    /\ UNCHANGED <<tx, prior>>

\* process_instruction, AddMovieReview arm
ProcessAdd ==
    /\ pc = "pending"
    /\ dispatch(instruction_data(tx)) = "add_movie_review"
    /\ Finish(process_instruction(accounts, tx))

\* process_instruction, UpdateMovieReview arm
ProcessUpdate ==
    /\ pc = "pending"
    /\ dispatch(instruction_data(tx)) = "update_movie_review"
    /\ Finish(process_instruction(accounts, tx))

\* process_instruction, unpack failed: the error is returned, no arm runs
ProcessRejected ==
    /\ pc = "pending"
    /\ dispatch(instruction_data(tx)) = "none"
    /\ Finish(process_instruction(accounts, tx))

\* the client has seen the result; the host is ready for the next instruction
Return ==
    /\ pc = "done"
    /\ pc' = "idle"
    /\ tx' = NoTx
    /\ outcome' = NoOutcome
    /\ prior' = "none"
    /\ UNCHANGED accounts

Next ==
    \/ Submit \/ SubmitRaw
    \/ ProcessAdd \/ ProcessUpdate \/ ProcessRejected
    \/ Resubmit \/ Return

Spec == Init /\ [][Next]_vars

(***************************** properties **********************************)

AddStep == pc = "pending" /\ pc' = "done" /\ tx.variant = "AddMovieReview"

UpdateStep == pc = "pending" /\ pc' = "done" /\ tx.variant = "UpdateMovieReview"

AddDone == pc = "done" /\ tx.variant = "AddMovieReview"

UpdateDone == pc = "done" /\ tx.variant = "UpdateMovieReview"

\* derive(owner, title, moduleId) of the specification
Derived(k, t) == [kind |-> "pda", key |-> k, seed |-> t]

\* the record size of the specification
SpecSize(title, description) ==
    1 + 1 + (4 + Len(title)) + (4 + Len(description))

Unallocated(accts, a) ==
    accts[a].lamports = 0 /\ accts[a].data = <<>> /\ accts[a].owner = SystemProgramId

RecordAt(accts, a) == try_from_slice_unchecked(accts[a].data).state

IsInitialized(accts, a) ==
    /\ accts[a].owner = ProgramId
    /\ try_from_slice_unchecked(accts[a].data).ok
    /\ RecordAt(accts, a).is_initialized

TxRecord ==
    [is_initialized |-> TRUE, reviewer |-> KeyBytes(tx.initializer),
     title |-> tx.title, rating |-> tx.rating, description |-> tx.description]

\* what a create needs besides a valid rating and a size within the limit
CreateOtherwiseValid ==
    /\ tx.is_signer
    /\ tx.pda_account = Derived(tx.initializer, tx.title)
    /\ Unallocated(accounts, tx.pda_account)
    /\ accounts[WalletAddr(tx.initializer)].lamports >= minimum_balance(account_len)

\* what an update needs besides a valid rating and a size within the limit
UpdateOtherwiseValid ==
    /\ tx.is_signer
    /\ IsInitialized(accounts, tx.pda_account)
    /\ RecordAt(accounts, tx.pda_account).reviewer = KeyBytes(tx.initializer)
    /\ tx.pda_account =
         Derived(tx.initializer, RecordAt(accounts, tx.pda_account).title)

\* C1: a create from a signer, at the derived address, with a rating in
\* [1,5], a size within 1000, a successful allocation and storage not yet
\* initialized succeeds and leaves the record initialized with the signer as
\* owner and the operation's title, rating and description.
C1_CreateSucceeds ==
    [][ (AddStep /\ CreateOtherwiseValid /\ tx.rating \in 1..5
           /\ SpecSize(tx.title, tx.description) <= 1000)
        => /\ outcome'.result = "Ok"
           /\ IsInitialized(accounts', tx.pda_account)
           /\ RecordAt(accounts', tx.pda_account) = TxRecord ]_vars

\* C2 as stated: a create run a second time with identical inputs after it
\* succeeded fails with AccountAlreadyInitialized and leaves the record of
\* the first run unchanged.
C2_SecondCreateAlreadyInitialized ==
    [][ (AddStep /\ prior = "Ok")
        => /\ outcome'.result = "AccountAlreadyInitialized"
           /\ accounts' = accounts
           /\ RecordAt(accounts', tx.pda_account) = TxRecord ]_vars

\* C2 as amended: a create run a second time with identical inputs after it
\* succeeded is refused by the host allocation (AccountAlreadyInUse, the
\* allocation failure) and leaves the record of the first run unchanged.
C2_SecondCreateRefusedByAllocation ==
    [][ (AddStep /\ prior = "Ok")
        => /\ outcome'.result = "AccountAlreadyInUse"
           /\ outcome'.invoked
           /\ accounts' = accounts
           /\ IsInitialized(accounts', tx.pda_account)
           /\ RecordAt(accounts', tx.pda_account) = TxRecord ]_vars

C2_Witness ==
    /\ AddDone /\ prior = "Ok"
    /\ outcome.result = "AccountAlreadyInUse"
    /\ RecordAt(accounts, tx.pda_account) = TxRecord

\* C3: no step changes the owner, the title or the initialized flag of an
\* initialized record; a successful update sets rating and description to the
\* operation's values and nothing else, whatever title the payload carries;
\* so every initialized record holds the owner and title its create wrote,
\* the pair its address is derived from.
C3_UpdateKeepsOwnerAndTitle ==
    [][ /\ \A a \in PdaAddrs :
             IsInitialized(accounts, a)
             => /\ IsInitialized(accounts', a)
                /\ RecordAt(accounts', a).reviewer = RecordAt(accounts, a).reviewer
                /\ RecordAt(accounts', a).title = RecordAt(accounts, a).title
        /\ (UpdateStep /\ outcome'.result = "Ok")
           => /\ IsInitialized(accounts, tx.pda_account)
              /\ RecordAt(accounts', tx.pda_account) =
                   [RecordAt(accounts, tx.pda_account)
                      EXCEPT !.rating = tx.rating,
                             !.description = tx.description]
              /\ \A a \in Addresses \ {tx.pda_account} : accounts'[a] = accounts[a]
        /\ \A a \in PdaAddrs :
             IsInitialized(accounts', a)
             => /\ RecordAt(accounts', a).reviewer = KeyBytes(a.key)
                /\ RecordAt(accounts', a).title = a.seed ]_vars

C3_Witness ==
    /\ UpdateDone /\ outcome.result = "Ok"
    /\ tx.title # RecordAt(accounts, tx.pda_account).title
    /\ RecordAt(accounts, tx.pda_account).rating = tx.rating
    /\ RecordAt(accounts, tx.pda_account).description = tx.description

\* C4: with every other precondition satisfied, a create or an update fails
\* with InvalidRating when the rating is outside [1,5] and succeeds when it
\* is inside.
C4_RatingBounds ==
    [][ /\ (AddStep /\ CreateOtherwiseValid
              /\ SpecSize(tx.title, tx.description) <= 1000)
           => IF tx.rating \in 1..5 THEN outcome'.result = "Ok"
              ELSE outcome'.result = "InvalidRating"
        /\ (UpdateStep /\ UpdateOtherwiseValid
              /\ SpecSize(RecordAt(accounts, tx.pda_account).title,
                          tx.description) <= 1000)
           => IF tx.rating \in 1..5 THEN outcome'.result = "Ok"
              ELSE outcome'.result = "InvalidRating" ]_vars

\* C5: with every other precondition satisfied, a create of size exactly 1000
\* succeeds and persists the record; one of size 1001 fails with
\* InvalidDataLength (DataTooLarge).
C5_SizeBoundaryOnCreate ==
    [][ (AddStep /\ CreateOtherwiseValid /\ tx.rating \in 1..5)
        => /\ SpecSize(tx.title, tx.description) = 1000
              => /\ outcome'.result = "Ok"
                 /\ RecordAt(accounts', tx.pda_account) = TxRecord
           /\ SpecSize(tx.title, tx.description) = 1001
              => outcome'.result = "InvalidDataLength" ]_vars

\* C6: an update that passes the earlier checks and whose size after the
\* operation, 1 + 1 + (4 + len(storedTitle)) + (4 + len(newDescription)),
\* exceeds 1000 fails with InvalidDataLength (DataTooLarge) and leaves the
\* stored record unchanged.
C6_UpdateSizeValidated ==
    [][ (UpdateStep /\ UpdateOtherwiseValid /\ tx.rating \in 1..5
           /\ SpecSize(RecordAt(accounts, tx.pda_account).title,
                       tx.description) > 1000)
        => /\ outcome'.result = "InvalidDataLength"
           /\ accounts' = accounts ]_vars

\* C7: an update of an initialized record submitted by a key other than the
\* record's stored owner fails with MissingRequiredSignature or InvalidPDA
\* and leaves every account unchanged.
C7_OnlyOwnerUpdates ==
    [][ (UpdateStep /\ IsInitialized(accounts, tx.pda_account)
           /\ RecordAt(accounts, tx.pda_account).reviewer # KeyBytes(tx.initializer))
        => /\ outcome'.result \in {"MissingRequiredSignature", "InvalidPDA"}
           /\ accounts' = accounts ]_vars

C7_Witness ==
    /\ UpdateDone /\ tx.is_signer
    /\ IsInitialized(accounts, tx.pda_account)
    /\ RecordAt(accounts, tx.pda_account).reviewer # KeyBytes(tx.initializer)
    /\ tx.rating \in 1..5
    /\ outcome.result = "InvalidPDA"

\* C8: a create with a rating outside [1,5], from a signer and at the derived
\* address, fails with InvalidRating without the allocation having been
\* requested; the address stays as it was (unallocated if it was) and no
\* balance changes.
C8_InvalidRatingBeforeAllocation ==
    [][ (AddStep /\ tx.is_signer
           /\ tx.pda_account = Derived(tx.initializer, tx.title)
           /\ tx.rating \notin 1..5)
        => /\ outcome'.result = "InvalidRating"
           /\ ~outcome'.invoked
           /\ accounts' = accounts ]_vars

C8_Witness ==
    /\ AddDone /\ tx.is_signer
    /\ tx.pda_account = Derived(tx.initializer, tx.title)
    /\ tx.rating = 6
    /\ outcome.result = "InvalidRating" /\ ~outcome.invoked
    /\ Unallocated(accounts, tx.pda_account)
    /\ accounts[WalletAddr(tx.initializer)].lamports = OpeningLamports(tx.initializer)

C10_UpdateUnallocatedUninitialized ==
    [][ (UpdateStep /\ tx.is_signer /\ Unallocated(accounts, tx.pda_account))
        => outcome'.result = "UninitializedAccount" ]_vars

\* C10 as amended: an update from a signer on an address where no record was
\* ever created (unallocated storage) fails with IllegalOwner.
C10_UpdateUnallocatedIllegalOwner ==
    [][ (UpdateStep /\ tx.is_signer /\ Unallocated(accounts, tx.pda_account))
        => /\ outcome'.result = "IllegalOwner"
           /\ accounts' = accounts ]_vars

C10_Witness ==
    /\ UpdateDone /\ tx.is_signer
    /\ Unallocated(accounts, tx.pda_account)
    /\ outcome.result = "IllegalOwner"

ProcessStep == pc = "pending" /\ pc' = "done"

C12_TagThreeAccepted ==
    (pc = "done" /\ tx.variant = "raw" /\ tx.raw = <<3>> /\ tx.is_signer)
    => outcome.result = "Ok"

\* one instruction run by the host from the accounts accts: how it ends and
\* the accounts it leaves
Exec(accts, t) ==
    LET r == process_instruction(accts, t)
    IN  [result |-> r.result, accounts |-> Commit(accts, r)]

\* t1 then t2, and t2 then t1, end the same way and leave the same accounts
Commute(accts, t1, t2) ==
    LET a1  == Exec(accts, t1)
        a12 == Exec(a1.accounts, t2)
        a2  == Exec(accts, t2)
        a21 == Exec(a2.accounts, t1)
    IN  /\ a1.result = a21.result
        /\ a2.result = a12.result
        /\ a12.accounts = a21.accounts

\* the operations whose order is compared: signed creates and updates by every
\* wallet at every address, the first of a pair carrying one rating and
\* description and the second another
FirstRequests ==
    { Request(ix) : ix \in
        [variant : Variants, initializer : Wallets, is_signer : {TRUE},
         pda_account : PdaAddrs, title : Titles, rating : {5},
         description : {Fill(1, 100)}] }

SecondRequests ==
    { Request(ix) : ix \in
        [variant : Variants, initializer : Wallets, is_signer : {TRUE},
         pda_account : PdaAddrs, title : Titles, rating : {1},
         description : {Fill(957, 101)}] }

\* both operations are creates paid by the same wallet, and the wallet cannot
\* pay for two allocations
SharedPayerShort(accts, t1, t2) ==
    /\ t1.variant = "AddMovieReview"
    /\ t2.variant = "AddMovieReview"
    /\ t1.initializer = t2.initializer
    /\ accts[WalletAddr(t1.initializer)].lamports
         < 2 * minimum_balance(account_len)

\* an operation leaves the account at every other record address as it was
LeavesOthers(accts, t) ==
    \A a \in PdaAddrs \ {t.pda_account} :
        Exec(accts, t).accounts[a] = accts[a]

\* an operation ends the same way whatever is stored at another record address
IgnoresOthers(accts, t) ==
    \A a \in PdaAddrs \ {t.pda_account} :
        Exec([accts EXCEPT ![a] = [lamports |-> 0, owner |-> SystemProgramId,
                                   data |-> <<>>]], t).result
          = Exec(accts, t).result

\* C13 as stated: from every reachable content of the accounts, two operations
\* on different addresses end the same way and leave the same accounts in
\* either order, two creates by the same owner for different titles included.
C13_DifferentAddressesCommute ==
    pc = "idle"
    => \A t1 \in FirstRequests : \A t2 \in SecondRequests :
         t1.pda_account # t2.pda_account => Commute(accounts, t1, t2)

\* C13, amended: from every reachable content of the accounts, two operations
\* on different addresses end the same way and leave the same accounts in
\* either order, unless both are creates paid by one wallet whose balance does
\* not cover two allocations; an operation never changes the account at
\* another record address, and its outcome does not depend on what is stored
\* there.
C13_CommuteUnlessSharedPayerShort ==
    pc = "idle"
    => /\ \A t1 \in FirstRequests : \A t2 \in SecondRequests :
            t1.pda_account # t2.pda_account
            => \/ Commute(accounts, t1, t2)
               \/ SharedPayerShort(accounts, t1, t2)
       /\ \A t \in FirstRequests \cup SecondRequests :
            LeavesOthers(accounts, t) /\ IgnoresOthers(accounts, t)

\* a record exists, and its update and a create by the same owner for another
\* title both succeed in either order
C13_Witness ==
    /\ pc = "idle"
    /\ \E t1 \in FirstRequests : \E t2 \in SecondRequests :
         /\ t1.pda_account # t2.pda_account
         /\ t1.initializer = t2.initializer
         /\ t1.variant = "AddMovieReview"
         /\ t2.variant = "UpdateMovieReview"
         /\ IsInitialized(accounts, t2.pda_account)
         /\ Exec(accounts, t1).result = "Ok"
         /\ Exec(accounts, t2).result = "Ok"
         /\ Exec(Exec(accounts, t1).accounts, t2).result = "Ok"
         /\ Exec(Exec(accounts, t2).accounts, t1).result = "Ok"
         /\ Exec(Exec(accounts, t1).accounts, t2).accounts # accounts

\* C14: every initialized record has a size, as the specification counts it,
\* of at most 1000, and every account the program owns holds exactly 1000
\* bytes.
C14_SizeInvariant ==
    \A a \in PdaAddrs :
        /\ accounts[a].owner = ProgramId => Len(accounts[a].data) = account_len
        /\ IsInitialized(accounts, a)
           => SpecSize(RecordAt(accounts, a).title,
                       RecordAt(accounts, a).description) <= 1000

\* an update has just written a record whose encoding fills the storage
C14_Witness ==
    /\ UpdateDone
    /\ outcome.result = "Ok"
    /\ IsInitialized(accounts, tx.pda_account)
    /\ RecordAt(accounts, tx.pda_account).description = tx.description
    /\ Len(Encode(RecordAt(accounts, tx.pda_account))) = account_len

\* C15: every initialized record is stored at the address derived from its
\* owner and its title, no two addresses hold records of the same owner and
\* title, and a create that succeeded was signed by the owner its address
\* derives from.
C15_AddressBinding ==
    /\ \A a \in PdaAddrs :
         IsInitialized(accounts, a)
         => \E k \in Wallets :
              /\ RecordAt(accounts, a).reviewer = KeyBytes(k)
              /\ a = Derived(k, RecordAt(accounts, a).title)
    /\ \A a, b \in PdaAddrs :
         (/\ IsInitialized(accounts, a)
          /\ IsInitialized(accounts, b)
          /\ RecordAt(accounts, a).reviewer = RecordAt(accounts, b).reviewer
          /\ RecordAt(accounts, a).title = RecordAt(accounts, b).title)
         => a = b
    /\ (AddDone /\ outcome.result = "Ok")
       => /\ tx.is_signer
          /\ tx.pda_account = Derived(tx.initializer, tx.title)

\* one owner holds two records, and a create by the other wallet aimed at one
\* of the owner's addresses has just been refused
C15_Witness ==
    /\ AddDone
    /\ tx.is_signer
    /\ tx.pda_account.key # tx.initializer
    /\ outcome.result = "InvalidArgument"
    /\ \A a \in PdaAddrs : a.key = tx.pda_account.key => IsInitialized(accounts, a)

\* C16: a record that is initialized stays allocated and initialized, with a
\* rating in [1,5], across every step, and no account moves back to
\* unallocated.
C16_LifecycleMonotone ==
    [][ \A a \in PdaAddrs :
          /\ IsInitialized(accounts, a)
             => /\ IsInitialized(accounts', a)
                /\ Len(accounts'[a].data) = account_len
                /\ accounts'[a].lamports > 0
                /\ RecordAt(accounts', a).rating \in 1..5
          /\ ~Unallocated(accounts, a) => ~Unallocated(accounts', a) ]_vars

\* an update of one record has succeeded while another record exists, and a
\* second run of the same update has been processed
C16_Witness ==
    /\ UpdateDone
    /\ outcome.result = "Ok"
    /\ prior = "Ok"
    /\ IsInitialized(accounts, tx.pda_account)
    /\ \E b \in PdaAddrs \ {tx.pda_account} : IsInitialized(accounts, b)

\* the outcomes of the specification's taxonomy under the names the code gives
\* them: InvalidDerivedAddress is InvalidArgument on create and InvalidPDA on
\* update, DataTooLarge is InvalidDataLength, AllocationFailed is whatever the
\* system program answers
TypedOutcomes ==
    { "Ok", "InvalidInstructionData", "MissingRequiredSignature",
      "InvalidArgument", "InvalidPDA", "InvalidRating", "InvalidDataLength",
      "AccountAlreadyInitialized", "UninitializedAccount", "IllegalOwner",
      "AccountAlreadyInUse", "ResultWithNegativeLamports" }

\* C17: every create and every update that has run ended in success or in an
\* error kind of the taxonomy, never in a panic or in another error.
C17_TypedOutcomesOnly ==
    (pc = "done" /\ outcome.handler # "none") => outcome.result \in TypedOutcomes

\* a create or an update never ends with BorshIoError
NoBorshIoError ==
    (pc = "done" /\ outcome.handler # "none") => outcome.result # "BorshIoError"

\* a create or an update never ends in a panic
NoPanic ==
    (pc = "done" /\ outcome.handler # "none") => outcome.result # "Panic"

\* the checks of a create, as the specification words them, on the pending
\* instruction
CreateSigned == tx.is_signer

CreateAddressDerived == tx.pda_account = Derived(tx.initializer, tx.title)

CreateRatingValid == tx.rating \in 1..5

CreateSizeFits == SpecSize(tx.title, tx.description) <= 1000

CreateFourPass ==
    CreateSigned /\ CreateAddressDerived /\ CreateRatingValid /\ CreateSizeFits

CreateAllocates ==
    /\ Unallocated(accounts, tx.pda_account)
    /\ accounts[WalletAddr(tx.initializer)].lamports
         >= minimum_balance(account_len)

\* C18: a create reports the error of the earliest check that fails, in the
\* order signer, derived address, rating, size, allocation,
\* already-initialized, and the allocation is requested exactly when the first
\* four checks pass.
C18_CreateCheckOrder ==
    [][ AddStep
        => /\ ~CreateSigned => outcome'.result = "MissingRequiredSignature"
           /\ (CreateSigned /\ ~CreateAddressDerived)
              => outcome'.result = "InvalidArgument"
           /\ (CreateSigned /\ CreateAddressDerived /\ ~CreateRatingValid)
              => outcome'.result = "InvalidRating"
           /\ (CreateSigned /\ CreateAddressDerived /\ CreateRatingValid
                 /\ ~CreateSizeFits)
              => outcome'.result = "InvalidDataLength"
           /\ (CreateFourPass /\ ~CreateAllocates)
              => outcome'.result
                   \in {"AccountAlreadyInUse", "ResultWithNegativeLamports"}
           /\ outcome'.result = "AccountAlreadyInitialized"
              => (CreateFourPass /\ CreateAllocates)
           /\ outcome'.invoked <=> CreateFourPass ]_vars

\* a signed create at the derived address failed both the rating check and
\* the size check, and the rating error was reported
C18_Witness ==
    /\ AddDone
    /\ tx.is_signer
    /\ tx.pda_account = Derived(tx.initializer, tx.title)
    /\ tx.rating \notin 1..5
    /\ SpecSize(tx.title, tx.description) > 1000
    /\ outcome.result = "InvalidRating"
    /\ ~outcome.invoked

\* the checks of an update, as the specification words them, on the pending
\* instruction
UpdateOwned == accounts[tx.pda_account].owner = ProgramId

UpdateSigned == tx.is_signer

UpdateAddressDerived ==
    tx.pda_account =
        Derived(tx.initializer, RecordAt(accounts, tx.pda_account).title)

UpdateInitialized == RecordAt(accounts, tx.pda_account).is_initialized

UpdateRatingValid == tx.rating \in 1..5

UpdateSizeFits ==
    SpecSize(RecordAt(accounts, tx.pda_account).title, tx.description) <= 1000

UpdateFivePass ==
    /\ UpdateOwned
    /\ UpdateSigned
    /\ UpdateAddressDerived
    /\ UpdateInitialized
    /\ UpdateRatingValid

\* C19: an update reports the error of the earliest check that fails, in the
\* order controlling authority, signer, derived address, initialized flag,
\* rating, size; the size error is reported when the five checks before it
\* pass and the size check of the update refuses the size, only when the size
\* exceeds 1000, and the record is written only when all six pass.
C19_UpdateCheckOrder ==
    [][ UpdateStep
        => /\ ~UpdateOwned => outcome'.result = "IllegalOwner"
           /\ (UpdateOwned /\ ~UpdateSigned)
              => outcome'.result = "MissingRequiredSignature"
           /\ (UpdateOwned /\ UpdateSigned /\ ~UpdateAddressDerived)
              => outcome'.result = "InvalidPDA"
           /\ (UpdateOwned /\ UpdateSigned /\ UpdateAddressDerived
                 /\ ~UpdateInitialized)
              => outcome'.result = "UninitializedAccount"
           /\ (UpdateOwned /\ UpdateSigned /\ UpdateAddressDerived
                 /\ UpdateInitialized /\ ~UpdateRatingValid)
              => outcome'.result = "InvalidRating"
           /\ (UpdateFivePass
                 /\ DataTooLarge(update_len(
                        RecordAt(accounts, tx.pda_account).title,
                        tx.description)))
              => outcome'.result = "InvalidDataLength"
           /\ outcome'.result = "InvalidDataLength"
              => (UpdateFivePass /\ ~UpdateSizeFits)
           /\ accounts' # accounts
              => (UpdateFivePass /\ UpdateSizeFits /\ outcome'.result = "Ok") ]_vars

\* an update without a signature, with a rating outside [1,5], aimed at an
\* address that was never allocated while another record exists, and the
\* controlling-authority error was reported
C19_Witness ==
    /\ UpdateDone
    /\ ~tx.is_signer
    /\ tx.rating \notin 1..5
    /\ Unallocated(accounts, tx.pda_account)
    /\ outcome.result = "IllegalOwner"
    /\ \E b \in PdaAddrs : IsInitialized(accounts, b)

\* an update refused for its size; every check before the size check passed
UpdateSizeRefused ==
    /\ UpdateDone
    /\ outcome.result = "InvalidDataLength"
    /\ IsInitialized(accounts, tx.pda_account)

\* C20: an update, whatever its outcome, requests no allocation and leaves
\* the balance, the owner and the size of every account as they were; it
\* changes no account but the targeted one, and there only the rating and the
\* description of the record.
C20_UpdateFrame ==
    [][ UpdateStep
        => /\ ~outcome'.invoked
           /\ \A a \in Addresses :
                /\ accounts'[a].lamports = accounts[a].lamports
                /\ accounts'[a].owner = accounts[a].owner
                /\ Len(accounts'[a].data) = Len(accounts[a].data)
           /\ \A a \in Addresses \ {tx.pda_account} : accounts'[a] = accounts[a]
           /\ accounts' # accounts
              => /\ outcome'.result = "Ok"
                 /\ RecordAt(accounts', tx.pda_account)
                      = [RecordAt(accounts, tx.pda_account)
                           EXCEPT !.rating = tx.rating,
                                  !.description = tx.description] ]_vars

\* an update has replaced a long description by a short one: the record
\* holds the new rating and description, and bytes of the old description
\* remain behind the encoding
C20_Witness ==
    /\ UpdateDone
    /\ outcome.result = "Ok"
    /\ RecordAt(accounts, tx.pda_account).rating = tx.rating
    /\ RecordAt(accounts, tx.pda_account).description = tx.description
    /\ Len(accounts[tx.pda_account].data) = account_len
    /\ Len(Encode(RecordAt(accounts, tx.pda_account))) < account_len
    /\ accounts[tx.pda_account]
         .data[Len(Encode(RecordAt(accounts, tx.pda_account))) + 1] # 0

====
